---- MODULE Spec2Model ----
(***************************************************************************)
(* Model of envs/utils/depth_utils.py: the voxel binner bin_points, the    *)
(* N-d multilinear splatter splat_feat_nd and the point-cloud projectors   *)
(* get_point_cloud_from_z / get_point_cloud_from_z_t.                      *)
(*                                                                         *)
(* Floating point values are modelled exactly: a float is a record         *)
(* [nan, v]; X and Y coordinates of a point are counted in halves (v = 3   *)
(* is 1.5), Z coordinates and the z_bins thresholds in units.              *)
(***************************************************************************)
EXTENDS Integers, Sequences, FiniteSets, TLC

VARIABLES
    op,             \* the function under execution
    pc,             \* its position: the loop it is in, "returned" or "error"
    err,            \* the exception raised when pc = "error"
    \* ---- bin_points
    sh_lead,        \* sh[:-3]: the leading batch dimensions of XYZ_cms
    XYZ_cms,        \* the cloud after line 128: slices of H*W points (ravel order)
    xy_resolution,  \* argument xy_resolution
    z_bins,         \* argument z_bins: increasing thresholds
    nan_cast,       \* what the build's float -> int32 cast makes of NaN
    bp_k,           \* number of slices the loop of line 131 has consumed
    ind,            \* ind.ravel() of the last slice (line 143)
    weights,        \* isvalid.ravel().astype(int32) of the last slice (line 144)
    counts,         \* the variable counts (line 130, line 146)
    bp_ret,         \* the returned tensor: [shape, data]
    \* ---- splat_feat_nd (nF = 1; values counted in 1/8^n_dims)
    grid_dims,      \* init_grid.shape[2:]
    init_grid,      \* argument init_grid, flattened: [batch][cell]
    feat,           \* argument feat: [batch][point]
    coords,         \* argument coords, counted in quarters: [batch][dim][point]
    pos_dim,        \* line 294: [dim][ix][batch][point]
    wts_dim,        \* line 295, counted in eighths: [dim][ix][batch][point]
    sp_c,           \* number of combinations ix_d the loop of line 299 has consumed
    index,          \* index[0, 0, :] of the last combination (line 306)
    updates,        \* updates of the last combination (line 311): [batch][point]
    grid_pre,       \* grid_flat when the last combination began
    grid_acc,       \* grid_flat after line 313 of the last combination
    grid_flat,      \* the variable grid_flat
    sp_ret,         \* the returned grid
    \* ---- get_point_cloud_from_z, get_point_cloud_from_z_t
    Y_shape,        \* Y.shape: leading batch dimensions, H, W
    Y,              \* argument Y: the depth at each index tuple of Y_shape
    scale,          \* argument scale
    XYZ             \* the returned cloud: [shape, data]; X and Z held times 2f

binVars == <<sh_lead, XYZ_cms, xy_resolution, z_bins, nan_cast, bp_k, ind, weights, counts, bp_ret>>
splatVars == <<grid_dims, init_grid, feat, coords, pos_dim, wts_dim, sp_c, index,
               updates, grid_pre, grid_acc, grid_flat, sp_ret>>
projVars == <<Y_shape, Y, scale, XYZ>>
vars == <<op, pc, err, binVars, splatVars, projVars>>

----------------------------------------------------------------------------
(* Bounds of the model *)

\* points (H*W) of one slice of a cloud
MaxPts == 2
\* slices (product of the leading batch dimensions) of a cloud
MaxBatch == 2
\* argument map_size of bin_points
map_size == 2
\* height and width of a depth image
MaxHW == 3
\* argument scale of the projectors
MaxScale == 2

----------------------------------------------------------------------------
(* Floats *)

NoCounts == <<>>
NoRet == [shape |-> <<>>, data |-> <<>>]

NaN == [nan |-> TRUE, v |-> 0]
Fl(n) == [nan |-> FALSE, v |-> n]
isnan(x) == x.nan

INT32_MIN == -2147483647 - 1
\* casting NaN to int32 is undefined: x86 builds give INT32_MIN, ARM builds 0
NanCasts == {INT32_MIN, 0}

\* n/d rounded to the nearest integer, ties to the even one (d > 0)
RoundHalfEven(n, d) ==
    LET q == n \div d
        r == n - q * d
    IN  IF 2 * r < d THEN q
        ELSE IF 2 * r > d THEN q + 1
        ELSE IF q % 2 = 0 THEN q ELSE q + 1

\* np.round(c / xy_resolution).astype(np.int32), c counted in halves
RoundBin(c, res, cast) ==
    IF isnan(c) THEN cast ELSE RoundHalfEven(c.v, 2 * res)

\* np.digitize(z, bins, right=True): a value on a threshold falls below it
digitize_right(z, bins) ==
    Cardinality({i \in DOMAIN bins : ~ (~ isnan(z) /\ z.v <= bins[i])})

\* np.digitize(z, bins) with right=False on increasing bins: the number of
\* thresholds t for which z < t is false (no comparison with NaN is true,
\* so NaN falls into the last bucket)
digitize(z, bins) ==
    Cardinality({i \in DOMAIN bins : ~ (~ isnan(z) /\ z.v < bins[i])})

----------------------------------------------------------------------------
(* bin_points *)

\* line 129
n_z_bins == Len(z_bins) + 1
GridSize == map_size * map_size * n_z_bins

\* lines 132-135; only the X channel is tested for NaN
isnotnan(p) == ~ isnan(p[1])
X_bin(p) == RoundBin(p[1], xy_resolution, nan_cast)
Y_bin(p) == RoundBin(p[2], xy_resolution, nan_cast)
Z_bin(p) == digitize(p[3], z_bins)

\* lines 137-140
isvalid(p) ==
    /\ X_bin(p) >= 0 /\ X_bin(p) < map_size
    /\ Y_bin(p) >= 0 /\ Y_bin(p) < map_size
    /\ Z_bin(p) >= 0 /\ Z_bin(p) < n_z_bins
    /\ isnotnan(p)

\* the index with the roles of X_bin and Y_bin exchanged
raw_ind_swapped(p) == (X_bin(p) * map_size + Y_bin(p)) * n_z_bins + Z_bin(p)

\* line 142
raw_ind(p) == (Y_bin(p) * map_size + X_bin(p)) * n_z_bins + Z_bin(p)

\* lines 142-143: the flattened index, 0 for an invalid point
ind_of(p) == IF isvalid(p) THEN raw_ind(p) ELSE 0

\* np.bincount(x, w, minlength): one pass over x adding w[i] to bin x[i]
RECURSIVE bincount_from(_, _, _, _)
bincount_from(x, w, i, acc) ==
    IF i > Len(x) THEN acc
    ELSE bincount_from(x, w, i + 1, [acc EXCEPT ![x[i]] = @ + w[i]])

bincount(x, w, minlength) ==
    bincount_from(x, w, 1, [c \in 0 .. minlength - 1 |-> 0])

RECURSIVE Prod(_)
Prod(s) == IF s = <<>> THEN 1 ELSE Head(s) * Prod(Tail(s))

RECURSIVE SumSeq(_)
SumSeq(s) == IF s = <<>> THEN 0 ELSE Head(s) + SumSeq(Tail(s))

\* the grid one slice yields (lines 132-146), as the flat array behind the
\* [map_size, map_size, n_z_bins] view
slice_count(XYZ_cm) ==
    bincount([i \in DOMAIN XYZ_cm |-> ind_of(XYZ_cm[i])],
             [i \in DOMAIN XYZ_cm |-> IF isvalid(XYZ_cm[i]) THEN 1 ELSE 0],
             GridSize)

\* cell [a, b, c] of a flat array viewed as [map_size, map_size, n_z_bins]
cell(flat, a, b, c) == flat[(a * map_size + b) * n_z_bins + c]

XVals == {NaN, Fl(1), Fl(2), Fl(4)}
YVals == {NaN, Fl(-2), Fl(2)}
ZVals == {NaN, Fl(-1), Fl(0)}
Points == XVals \X YVals \X ZVals
\* the points of the slices of a batched cloud (one point a slice)
BatchPoints == {<<Fl(1), Fl(2), Fl(0)>>, <<Fl(2), Fl(2), Fl(-1)>>, <<NaN, NaN, NaN>>}
Resolutions == {1}
ZBinsSet == {<<0, 2>>, <<-1, 0>>}


ProjIdle == Y_shape = <<>> /\ Y = <<>> /\ scale = 1 /\ XYZ = NoRet

SplatIdle ==
    /\ grid_dims = <<>> /\ init_grid = <<>> /\ feat = <<>> /\ coords = <<>>
    /\ pos_dim = <<>> /\ wts_dim = <<>> /\ sp_c = 0 /\ index = <<>>
    /\ updates = <<>> /\ grid_pre = <<>> /\ grid_acc = <<>> /\ grid_flat = <<>>
    /\ sp_ret = <<>>

BinIdle ==
    /\ sh_lead = <<>> /\ XYZ_cms = <<>> /\ xy_resolution = 1 /\ nan_cast = 0
    /\ z_bins = <<>>
    /\ bp_k = 0 /\ ind = <<>> /\ weights = <<>> /\ counts = NoCounts
    /\ bp_ret = NoRet

\* a call bin_points(XYZ_cms, map_size, z_bins, xy_resolution), lines 127-130:
\* an unbatched cloud [H, W, 3], or a batched one [K, 1, 1, 3]
InitBin ==
    /\ op = "bin_points" /\ pc = "loop" /\ err = "none"
    /\ \/ \E n \in 1 .. MaxPts :
             /\ sh_lead = <<>>
             /\ XYZ_cms \in [1 .. 1 -> [1 .. n -> Points]]
       \/ \E K \in 1 .. MaxBatch :
             /\ sh_lead = <<K>>
             /\ XYZ_cms \in [1 .. K -> [1 .. 1 -> BatchPoints]]
    /\ xy_resolution \in Resolutions
    /\ z_bins \in ZBinsSet
    /\ nan_cast \in NanCasts
    /\ bp_k = 0 /\ ind = <<>> /\ weights = <<>> /\ counts = NoCounts
    /\ bp_ret = NoRet
    /\ SplatIdle /\ ProjIdle

\* one iteration of the loop of line 131 (lines 132-146)
BinPointsIter ==
    /\ op = "bin_points" /\ pc = "loop" /\ bp_k < Len(XYZ_cms)
    /\ LET XYZ_cm == XYZ_cms[bp_k + 1]
           i2 == [i \in DOMAIN XYZ_cm |-> ind_of(XYZ_cm[i])]
           w2 == [i \in DOMAIN XYZ_cm |-> IF isvalid(XYZ_cm[i]) THEN 1 ELSE 0]
       IN  /\ ind' = i2
           /\ weights' = w2
           /\ counts' = bincount(i2, w2, GridSize)
    /\ bp_k' = bp_k + 1
    /\ UNCHANGED <<op, pc, err, sh_lead, XYZ_cms, xy_resolution, z_bins, nan_cast, bp_ret,
                   splatVars, projVars>>

\* line 148 and the return: counts, the grid of the last slice only, is
\* reshaped to the batched shape; reshape raises when the sizes differ
BinPointsReshape ==
    /\ op = "bin_points" /\ pc = "loop" /\ bp_k = Len(XYZ_cms)
    /\ IF Prod(sh_lead) * GridSize = GridSize
       THEN /\ pc' = "returned"
            /\ bp_ret' = [shape |-> sh_lead \o <<map_size, map_size, n_z_bins>>,
                          data |-> counts]
            /\ err' = err
       ELSE /\ pc' = "error"
            /\ err' = "ValueError"
            /\ bp_ret' = bp_ret
    /\ UNCHANGED <<op, sh_lead, XYZ_cms, xy_resolution, z_bins, nan_cast, bp_k,
                   ind, weights, counts, splatVars, projVars>>

NextBin == BinPointsIter \/ BinPointsReshape

SpecBin == InitBin /\ [][NextBin]_vars

----------------------------------------------------------------------------
(* splat_feat_nd *)

RECURSIVE Pow(_, _)
Pow(b, n) == IF n = 0 THEN 1 ELSE b * Pow(b, n - 1)
Abs(x) == IF x < 0 THEN -x ELSE x

n_dims == Len(grid_dims)
\* the unit of grid values, updates and combined weights: 1/8 per dimension
Scale == Pow(8, n_dims)
NCells == Prod(grid_dims)

\* broadcasting of two axis lengths, and of an index into an axis of length 1
Compatible(a, b) == a = b \/ a = 1 \/ b = 1
Broadcast(a, b) == IF a = 1 THEN b ELSE a
At(i, size) == IF size = 1 THEN 1 ELSE i

\* line 277, in eighths: coords * D / 2 + D / 2 for coords = k / 4
pos8(k, D) == k * D + 4 * D
\* line 282: floor(pos) + ix
raw_ix(k, D, ix) == (pos8(k, D) \div 8) + ix

\* the mask with both bounds closed
safe_ix_closed(pos_ix, D) == pos_ix >= 0 /\ pos_ix <= D

\* the mask that admits index 0
safe_ix_from_zero(pos_ix, D) == pos_ix >= 0 /\ pos_ix < D

\* line 283
safe_ix(pos_ix, D) == pos_ix > 0 /\ pos_ix < D

\* lines 286, 288: 1 - |pos - pos_ix|, masked; in eighths
wts_ix(k, D, ix) ==
    IF safe_ix(raw_ix(k, D, ix), D) THEN 8 - Abs(pos8(k, D) - 8 * raw_ix(k, D, ix)) ELSE 0

\* line 289: pos_ix, masked
pos_ix(k, D, ix) ==
    IF safe_ix(raw_ix(k, D, ix), D) THEN raw_ix(k, D, ix) ELSE 0

\* ix_d[d] of the c-th tuple of itertools.product([0, 1], ...), c from 0
ix_d(c, d) == (c \div Pow(2, n_dims - d)) % 2

\* lines 301-304: index and wts of combination c after dimensions 1 .. d
RECURSIVE index_upto(_, _, _, _)
index_upto(c, b, p, d) ==
    IF d = 0 THEN 0
    ELSE index_upto(c, b, p, d - 1) * grid_dims[d] + pos_dim[d][ix_d(c, d)][b][p]

RECURSIVE wts_upto(_, _, _, _)
wts_upto(c, b, p, d) ==
    IF d = 0 THEN 1
    ELSE wts_upto(c, b, p, d - 1) * wts_dim[d][ix_d(c, d)][b][p]

\* grid_flat[..., idx] = vals, the writes applied one after the other in
\* the order given: of several writes to one cell the last one stays
RECURSIVE write_all(_, _, _, _, _)
write_all(g, idx, vals, order, i) ==
    IF i > Len(idx) THEN g
    ELSE write_all([g EXCEPT ![idx[order[i]]] = vals[order[i]]], idx, vals, order, i + 1)

\* line 314
round_grid(g) ==
    [b \in DOMAIN g |-> [c \in DOMAIN g[b] |-> RoundHalfEven(g[b][c], Scale) * Scale]]

GridDimsSet == {<<3>>, <<2, 3>>}
\* the coordinates of a point, in quarters: below the grid, in its first
\* cell, inside, on its upper border
CoordVals == {-6, -2, 1, 4}
Coords2D == {<<-6, 1>>, <<-2, -2>>, <<-2, 1>>, <<1, -2>>, <<1, 1>>, <<1, 4>>}
CoordTuples(gd) == IF Len(gd) = 1 THEN {<<k>> : k \in CoordVals} ELSE Coords2D
FeatVals == {1, 2}
\* initial grids: all cells 0, all cells 1/2, cell c holding c
InitGrids(gd) ==
    LET cells == 0 .. Prod(gd) - 1
        half == Pow(8, Len(gd)) \div 2
    IN  { [c \in cells |-> 0], [c \in cells |-> half], [c \in cells |-> 2 * half * c] }
BatchSizes == {1, 2}

\* a call splat_feat_nd(init_grid, feat, coords), lines 265-274: either the
\* documented shapes with batch size 1, or any other combination of batch
\* sizes and point counts (with plain values)
InitSplat ==
    /\ op = "splat_feat_nd" /\ pc = "dims" /\ err = "none"
    /\ BinIdle /\ ProjIdle
    /\ \/ \E gd \in GridDimsSet, P \in 1 .. MaxPts :
             /\ grid_dims = gd
             /\ init_grid \in {<<g>> : g \in InitGrids(gd)}
             /\ feat \in [1 .. 1 -> [1 .. P -> FeatVals]]
             /\ \E pts \in [1 .. P -> CoordTuples(gd)] :
                   coords = <<[d \in 1 .. Len(gd) |-> [p \in 1 .. P |-> pts[p][d]]]>>
       \/ \E Bg \in BatchSizes, Bf \in BatchSizes, Bc \in BatchSizes,
             Pf \in 1 .. MaxPts, Pc \in 1 .. MaxPts :
             /\ ~ (Bg = 1 /\ Bf = 1 /\ Bc = 1 /\ Pf = Pc)
             /\ grid_dims = <<3>>
             /\ init_grid = [b \in 1 .. Bg |-> [c \in 0 .. 2 |-> 0]]
             /\ feat = [b \in 1 .. Bf |-> [p \in 1 .. Pf |-> 1]]
             /\ coords = [b \in 1 .. Bc |-> <<[p \in 1 .. Pc |-> 1]>>]
    /\ pos_dim = <<>> /\ wts_dim = <<>> /\ sp_c = 0 /\ index = <<>>
    /\ updates = <<>> /\ grid_pre = <<>> /\ grid_acc = <<>>
    /\ grid_flat = init_grid
    /\ sp_ret = <<>>

\* the loop of line 276 (lines 276-295)
SplatNeighbours ==
    /\ op = "splat_feat_nd" /\ pc = "dims"
    /\ pos_dim' = [d \in 1 .. n_dims |-> [ix \in 0 .. 1 |->
                     [b \in DOMAIN coords |-> [p \in DOMAIN coords[b][d] |->
                        pos_ix(coords[b][d][p], grid_dims[d], ix)]]]]
    /\ wts_dim' = [d \in 1 .. n_dims |-> [ix \in 0 .. 1 |->
                     [b \in DOMAIN coords |-> [p \in DOMAIN coords[b][d] |->
                        wts_ix(coords[b][d][p], grid_dims[d], ix)]]]]
    /\ pc' = "combos"
    /\ UNCHANGED <<op, err, binVars, projVars, grid_dims, init_grid, feat, coords, sp_c, index,
                   updates, grid_pre, grid_acc, grid_flat, sp_ret>>

SplatRaise(e) ==
    /\ pc' = "error" /\ err' = e
    /\ UNCHANGED <<sp_c, updates, grid_pre, grid_acc, grid_flat>>

\* one iteration of the loop of line 299 (lines 300-314)
SplatCombination ==
    /\ op = "splat_feat_nd" /\ pc = "combos" /\ sp_c < Pow(2, n_dims)
    /\ LET Bg == Len(grid_flat)
           Bf == Len(feat)
           Pf == Len(feat[1])
           Bc == Len(coords)
           Pc == Len(coords[1][1])
           idx == [b \in 1 .. Bc |-> [p \in 1 .. Pc |-> index_upto(sp_c, b, p, n_dims)]]
           wts == [b \in 1 .. Bc |-> [p \in 1 .. Pc |-> wts_upto(sp_c, b, p, n_dims)]]
           \* line 311: feat * wts
           Bu == Broadcast(Bf, Bc)
           Pu == Broadcast(Pf, Pc)
           upd == [b \in 1 .. Bu |-> [p \in 1 .. Pu |->
                     feat[At(b, Bf)][At(p, Pf)] * wts[At(b, Bc)][At(p, Pc)]]]
           \* line 313: grid_flat[..., index[0, 0, :]] + updates
           Bs == Broadcast(Bg, Bu)
           Ps == Broadcast(Pc, Pu)
           sum == [b \in 1 .. Bs |-> [p \in 1 .. Ps |->
                     grid_flat[At(b, Bg)][idx[1][At(p, Pc)]]
                       + upd[At(b, Bu)][At(p, Pu)]]]
       IN  /\ index' = idx
           /\ IF ~ (Compatible(Bf, Bc) /\ Compatible(Pf, Pc))
              THEN SplatRaise("ValueError")
              ELSE IF Bc # 1
              THEN SplatRaise("AssertionError")
              ELSE IF \E p \in 1 .. Pc : idx[1][p] \notin 0 .. NCells - 1
              THEN SplatRaise("IndexError")
              ELSE IF ~ (Compatible(Bg, Bu) /\ Compatible(Pc, Pu))
              THEN SplatRaise("ValueError")
              ELSE IF ~ (Bs \in {1, Bg} /\ Ps \in {1, Pc})
              THEN SplatRaise("ValueError")
              ELSE \E order \in Permutations(1 .. Pc) :
                     LET acc == [b \in 1 .. Bg |->
                                   write_all(grid_flat[b], idx[1],
                                             [p \in 1 .. Pc |-> sum[At(b, Bs)][At(p, Ps)]],
                                             order, 1)]
                     IN  /\ updates' = upd
                         /\ grid_pre' = grid_flat
                         /\ grid_acc' = acc
                         /\ grid_flat' = round_grid(acc)
                         /\ sp_c' = sp_c + 1
                         /\ UNCHANGED <<pc, err>>
    /\ UNCHANGED <<op, binVars, projVars, grid_dims, init_grid, feat, coords, pos_dim, wts_dim,
                   sp_ret>>

\* line 316
SplatReturn ==
    /\ op = "splat_feat_nd" /\ pc = "combos" /\ sp_c = Pow(2, n_dims)
    /\ pc' = "returned"
    /\ sp_ret' = grid_flat
    /\ UNCHANGED <<op, err, binVars, projVars, grid_dims, init_grid, feat, coords, pos_dim,
                   wts_dim, sp_c, index, updates, grid_pre, grid_acc, grid_flat>>

NextSplat == SplatNeighbours \/ SplatCombination \/ SplatReturn

SpecSplat == InitSplat /\ [][NextSplat]_vars

----------------------------------------------------------------------------
(* get_point_cloud_from_z, get_point_cloud_from_z_t *)

\* the index tuples (from 1) of a tensor of the given shape
RECURSIVE Indices(_)
Indices(shape) ==
    IF shape = <<>> THEN {<<>>}
    ELSE {<<i>> \o r : i \in 1 .. Head(shape), r \in Indices(Tail(shape))}

\* length of range(0, n, step)
StrideLen(n, step) == (n + step - 1) \div step

\* shape of t[::step, ::step] taken on the axes named
SlicedShape(shape, axes, step) ==
    [a \in DOMAIN shape |-> IF a \in axes THEN StrideLen(shape[a], step) ELSE shape[a]]
\* the index of t that index o of the slice reads
SlicedFrom(o, axes, step) ==
    [a \in DOMAIN o |-> IF a \in axes THEN (o[a] - 1) * step + 1 ELSE o[a]]

\* lines 73, 164-165: meshgrid of arange(W) and arange(H - 1, -1, -1); the
\* value at an index tuple whose last two entries are row and column
grid_x(i) == i[Len(i)] - 1
grid_z(i, H) == H - i[Len(i) - 1]

\* camera_matrix of get_camera_matrix(W, H, fov), lines 35-36, doubled
xc2(W) == W - 1
zc2(H) == H - 1

\* lines 77-83 and 170-176 for one output index: x and z are read at i, Y
\* at j; X and Z are held times 2f
point_at(i, j, H, W) ==
    << (2 * grid_x(i) - xc2(W)) * Y[j], Y[j], (2 * grid_z(i, H) - zc2(H)) * Y[j] >>

LeadShapes == {<<>>, <<1>>, <<2>>, <<3>>, <<2, 2>>}
\* row-major position of index tuple i in a tensor of the given shape
RECURSIVE LinearIndex(_, _)
LinearIndex(i, shape) ==
    IF i = <<>> THEN 0
    ELSE LinearIndex(SubSeq(i, 1, Len(i) - 1), SubSeq(shape, 1, Len(shape) - 1))
           * shape[Len(shape)] + (i[Len(i)] - 1)

\* depth maps: every pixel its own depth, or one depth everywhere
DepthMaps(shape) ==
    { [i \in Indices(shape) |-> 1 + LinearIndex(i, shape)],
      [i \in Indices(shape) |-> 2] }

InitProj ==
    /\ op \in {"get_point_cloud_from_z", "get_point_cloud_from_z_t"}
    /\ pc = "call" /\ err = "none"
    /\ BinIdle /\ SplatIdle
    /\ \E lead \in LeadShapes, H \in 1 .. MaxHW, W \in 1 .. MaxHW :
          /\ Y_shape = lead \o <<H, W>>
          /\ Y \in DepthMaps(lead \o <<H, W>>)
    /\ scale \in 1 .. MaxScale
    /\ XYZ = NoRet

\* lines 73-84
GetPointCloudFromZ ==
    /\ op = "get_point_cloud_from_z" /\ pc = "call"
    /\ LET nd == Len(Y_shape)
           H == Y_shape[nd - 1]
           W == Y_shape[nd]
           \* lines 74-76: x and z get a leading axis of length 1 per batch axis
           x_shape == [a \in 1 .. nd |-> IF a <= nd - 2 THEN 1 ELSE Y_shape[a]]
           \* lines 77-80: [::scale, ::scale] strides the first two axes
           xs == SlicedShape(x_shape, {1, 2}, scale)
           Ys == SlicedShape(Y_shape, {1, 2}, scale)
           out == [a \in 1 .. nd |-> Broadcast(xs[a], Ys[a])]
       IN  IF \E a \in 1 .. nd : ~ Compatible(xs[a], Ys[a])
           THEN pc' = "error" /\ err' = "ValueError" /\ XYZ' = XYZ
           ELSE /\ pc' = "returned" /\ err' = err
                /\ XYZ' = [shape |-> out \o <<3>>,
                           data |-> [o \in Indices(out) |->
                              point_at(SlicedFrom([a \in 1 .. nd |-> At(o[a], xs[a])], {1, 2}, scale),
                                       SlicedFrom([a \in 1 .. nd |-> At(o[a], Ys[a])], {1, 2}, scale),
                                       H, W)]]
    /\ UNCHANGED <<op, binVars, splatVars, Y_shape, Y, scale>>

\* lines 164-178
GetPointCloudFromZT ==
    /\ op = "get_point_cloud_from_z_t" /\ pc = "call"
    /\ LET nd == Len(Y_shape)
           H == Y_shape[nd - 1]
           W == Y_shape[nd]
           \* lines 170-176: [:, ::scale, ::scale] strides the second and third axis
           out == SlicedShape(Y_shape, {2, 3}, scale)
       IN  \* lines 166-168: the [1, H, W] grid is broadcast to Y_t.shape
           IF nd < 3
           THEN pc' = "error" /\ err' = "ValueError" /\ XYZ' = XYZ
           ELSE /\ pc' = "returned" /\ err' = err
                /\ XYZ' = [shape |-> out \o <<3>>,
                           data |-> [o \in Indices(out) |->
                              point_at(SlicedFrom(o, {2, 3}, scale),
                                       SlicedFrom(o, {2, 3}, scale), H, W)]]
    /\ UNCHANGED <<op, binVars, splatVars, Y_shape, Y, scale>>

NextProj == GetPointCloudFromZ \/ GetPointCloudFromZT

SpecProj == InitProj /\ [][NextProj]_vars

----------------------------------------------------------------------------
(* Properties of the projectors *)

\* C7: with any number of leading batch dimensions and any scale >= 1, both
\* projectors keep every batch element, sample rows and columns 0, scale,
\* 2*scale, ... and return [X, Y, Z] with Y the depth of the sampled pixel.
C7_Decimation ==
    (op \in {"get_point_cloud_from_z", "get_point_cloud_from_z_t"}
        /\ pc \in {"returned", "error"}) =>
        LET nd == Len(Y_shape)
            H == Y_shape[nd - 1]
            W == Y_shape[nd]
            want == SlicedShape(Y_shape, {nd - 1, nd}, scale)
        IN  /\ pc = "returned"
            /\ XYZ.shape = want \o <<3>>
            /\ \A o \in Indices(want) :
                  LET src == SlicedFrom(o, {nd - 1, nd}, scale)
                  IN  XYZ.data[o] = << (2 * (src[nd] - 1) - (W - 1)) * Y[src], Y[src],
                                       (2 * (H - src[nd - 1]) - (H - 1)) * Y[src] >>

----------------------------------------------------------------------------
(* Properties of bin_points *)

Returned(f) == op = f /\ pc = "returned"
Remove(s, i) == [j \in 1 .. Len(s) - 1 |-> IF j < i THEN s[j] ELSE s[j + 1]]
HasNaN(p) == isnan(p[1]) \/ isnan(p[2]) \/ isnan(p[3])
\* the grids of all slices, stacked along the batch axis
Stacked ==
    [j \in 0 .. Len(XYZ_cms) * GridSize - 1 |->
        slice_count(XYZ_cms[j \div GridSize + 1])[j % GridSize]]
BinsInRange(p) ==
    /\ 0 <= X_bin(p) /\ X_bin(p) < map_size
    /\ 0 <= Y_bin(p) /\ Y_bin(p) < map_size
    /\ 0 <= Z_bin(p) /\ Z_bin(p) < n_z_bins
GridSum(flat) == SumSeq([j \in 1 .. GridSize |-> flat[j - 1]])

\* C1: a point with NaN in X, Y or Z, or with X_bin = map_size, changes no
\* cell: the grid returned for the cloud equals the grid of the cloud
\* without that point.
C1_BinnerExclusion ==
    Returned("bin_points") =>
        \A i \in DOMAIN XYZ_cms[1] :
            (HasNaN(XYZ_cms[1][i]) \/ X_bin(XYZ_cms[1][i]) = map_size)
                => bp_ret.data = slice_count(Remove(XYZ_cms[1], i))

\* C2: for any number K >= 1 of batch slices bin_points returns a grid of
\* shape [..., map_size, map_size, n_z_bins] whose sub-grid k is the
\* histogram of slice k alone.
C2_BinnerBatching ==
    (op = "bin_points" /\ pc \in {"returned", "error"}) =>
        /\ pc = "returned"
        /\ bp_ret.shape = sh_lead \o <<map_size, map_size, n_z_bins>>
        /\ bp_ret.data = Stacked

\* C6: when every point without NaN has its three bins in range, the sum of
\* the returned grid is the number of points without NaN.
C6_BinnerConservation ==
    (/\ Returned("bin_points")
     /\ \A i \in DOMAIN XYZ_cms[1] :
            ~ HasNaN(XYZ_cms[1][i]) => BinsInRange(XYZ_cms[1][i]))
        => GridSum(bp_ret.data)
             = Cardinality({i \in DOMAIN XYZ_cms[1] : ~ HasNaN(XYZ_cms[1][i])})

\* C9: cell [a, b, c] of the returned grid holds the number of valid points
\* (X not NaN, the three bins in range) with Y_bin = a, X_bin = b, Z_bin = c;
\* invalid points add nothing, to cell [0, 0, 0] or elsewhere.
C9_CellAssignment ==
    Returned("bin_points") =>
        \A a \in 0 .. map_size - 1, b \in 0 .. map_size - 1, c \in 0 .. n_z_bins - 1 :
            cell(bp_ret.data, a, b, c)
              = Cardinality({i \in DOMAIN XYZ_cms[1] :
                               LET p == XYZ_cms[1][i]
                               IN  /\ ~ isnan(p[1])
                                   /\ Y_bin(p) = a /\ X_bin(p) = b /\ Z_bin(p) = c})

\* C9, reached: a cloud of an invalid and a valid point, the valid one off
\* the diagonal
C9_Witness ==
    /\ Returned("bin_points")
    /\ Len(XYZ_cms[1]) = 2
    /\ ~ isvalid(XYZ_cms[1][1]) /\ isvalid(XYZ_cms[1][2])
    /\ X_bin(XYZ_cms[1][2]) # Y_bin(XYZ_cms[1][2])

OnThreshold(p, j) == ~ isnan(p[3]) /\ p[3].v = z_bins[j]
CountedIn(i, bucket) ==
    LET p == XYZ_cms[1][i]
    IN  /\ ind[i] = (Y_bin(p) * map_size + X_bin(p)) * n_z_bins + bucket
        /\ weights[i] = 1
        /\ cell(bp_ret.data, Y_bin(p), X_bin(p), bucket) >= 1

\* C10 (as stated): a valid point whose Z equals the threshold z_bins[i] is
\* counted in the lower of the two buckets meeting there (bucket i, counting
\* thresholds from 0).
C10_LowerBucket ==
    Returned("bin_points") =>
        \A i \in DOMAIN XYZ_cms[1], j \in DOMAIN z_bins :
            (isvalid(XYZ_cms[1][i]) /\ OnThreshold(XYZ_cms[1][i], j))
                => CountedIn(i, j - 1)

\* C10 (amended): a valid point whose Z equals the threshold z_bins[i] is
\* counted in the higher of the two buckets meeting there (bucket i + 1,
\* counting thresholds from 0): bucket b holds z_bins[b-1] <= Z < z_bins[b].
C10_UpperBucket ==
    Returned("bin_points") =>
        \A i \in DOMAIN XYZ_cms[1], j \in DOMAIN z_bins :
            (isvalid(XYZ_cms[1][i]) /\ OnThreshold(XYZ_cms[1][i], j))
                => CountedIn(i, j)

\* C10, reached: a valid point on the last threshold, counted in the last
\* bucket
C10_Witness ==
    /\ Returned("bin_points")
    /\ \E i \in DOMAIN XYZ_cms[1] :
          /\ isvalid(XYZ_cms[1][i])
          /\ OnThreshold(XYZ_cms[1][i], Len(z_bins))
          /\ CountedIn(i, n_z_bins - 1)

----------------------------------------------------------------------------
(* Properties of splat_feat_nd *)

\* the shapes of the docstring: one batch size, one number of points
SameShapes ==
    /\ Len(init_grid) = Len(feat) /\ Len(feat) = Len(coords)
    /\ Len(feat[1]) = Len(coords[1][1])
Documented == SameShapes /\ Len(coords) = 1
\* index of flat cell c along dimension d (row-major)
cell_ix(c, d) == (c \div Prod(SubSeq(grid_dims, d + 1, n_dims))) % grid_dims[d]
ZeroIndexCell(c) == \E d \in 1 .. n_dims : cell_ix(c, d) = 0
\* what the points whose index of the last combination is c contribute
Contributions(c) ==
    SumSeq([p \in DOMAIN index[1] |-> IF index[1][p] = c THEN updates[1][p] ELSE 0])

\* C3: within a combination, before the rounding, a cell receives the sum of
\* the feature*weight contributions of all points whose index is that cell.
C3_SumAccumulation ==
    (op = "splat_feat_nd" /\ Documented /\ sp_c >= 1) =>
        \A c \in 0 .. NCells - 1 :
            grid_acc[1][c] = grid_pre[1][c] + Contributions(c)

\* C4 (as stated): with batch size 1, a cell whose index is 0 along some
\* dimension has in the returned grid exactly its value in init_grid.
C4_ZeroCellsKeepInit ==
    (Returned("splat_feat_nd") /\ Len(init_grid) = 1) =>
        \A c \in 0 .. NCells - 1 :
            ZeroIndexCell(c) => sp_ret[1][c] = init_grid[1][c]

\* C4 (amended): with batch size 1 and finite inputs, a cell whose index is 0
\* along some dimension has in the returned grid its value in init_grid
\* rounded to the nearest integer (ties to even): no point adds to it, but
\* line 314 rounds the whole grid.
C4_ZeroCellsRoundedInit ==
    (Returned("splat_feat_nd") /\ Len(init_grid) = 1) =>
        \A c \in 0 .. NCells - 1 :
            ZeroIndexCell(c)
                => sp_ret[1][c] = RoundHalfEven(init_grid[1][c], Scale) * Scale

\* C4, reached: a point lies in the first cell along every dimension, off the border,
\* with a feature that is not 0, and the grid started at 1/2
C4_Witness ==
    /\ Returned("splat_feat_nd") /\ Documented
    /\ init_grid[1][0] = Scale \div 2
    /\ \E p \in DOMAIN feat[1] :
          /\ feat[1][p] # 0
          /\ \A d \in 1 .. n_dims :
                /\ raw_ix(coords[1][d][p], grid_dims[d], 0) = 0
                /\ pos8(coords[1][d][p], grid_dims[d]) > 0

\* C8: a call whose shapes differ from the documented ones fails at entry,
\* before any cell is modified, and never returns a grid (the name of the
\* exception is left out of the formula).
C8_ShapeMismatchFails ==
    (op = "splat_feat_nd" /\ ~ SameShapes) =>
        /\ pc # "returned"
        /\ grid_flat = init_grid

----------------------------------------------------------------------------
(* Properties of both *)

InGrid(i, D) == i >= 0 /\ i < D
IsFinitePoint(p) == ~ HasNaN(p)

BinIndexBound ==
    (op = "bin_points" /\ bp_k >= 1) =>
        \A i \in DOMAIN ind :
            LET p == XYZ_cms[bp_k][i]
                raw_in == /\ InGrid(X_bin(p), map_size) /\ InGrid(Y_bin(p), map_size)
                          /\ InGrid(Z_bin(p), n_z_bins)
            IN  /\ InGrid(ind[i], GridSize)
                /\ weights[i] = 1 =>
                      ind[i] = (Y_bin(p) * map_size + X_bin(p)) * n_z_bins + Z_bin(p)
                /\ (IsFinitePoint(p) /\ ~ raw_in) => (weights[i] = 0 /\ ind[i] = 0)
                /\ (IsFinitePoint(p) /\ raw_in) => weights[i] = 1

SplatIndexBound ==
    (op = "splat_feat_nd" /\ pc # "dims") =>
        /\ \A d \in 1 .. n_dims, ix \in 0 .. 1, b \in DOMAIN coords :
              \A p \in DOMAIN coords[b][d] :
              LET raw == raw_ix(coords[b][d][p], grid_dims[d], ix)
              IN  /\ InGrid(pos_dim[d][ix][b][p], grid_dims[d])
                  /\ pos_dim[d][ix][b][p] \in {0, raw}
                  /\ ~ InGrid(raw, grid_dims[d]) =>
                        (wts_dim[d][ix][b][p] = 0 /\ pos_dim[d][ix][b][p] = 0)
        /\ \A b \in DOMAIN index : \A p \in DOMAIN index[b] : InGrid(index[b][p], NCells)
        /\ err # "IndexError"
        /\ Documented => pc # "error"

\* C5: in bin_points and in splat_feat_nd every index used for accumulation
\* lies inside the grid, per dimension and flattened; a finite point (or
\* neighbour) whose raw index lies outside has weight 0 and index 0: it is
\* not wrapped, not clipped onto a border cell, and raises no error.
C5_IndexBound == BinIndexBound /\ SplatIndexBound

\* C5, reached: a splat in which one point lies below the grid and another
\* above it
C5_Witness ==
    /\ Returned("splat_feat_nd") /\ Documented /\ n_dims = 2
    /\ \E p \in DOMAIN coords[1][1], q \in DOMAIN coords[1][1] :
          /\ raw_ix(coords[1][1][p], grid_dims[1], 0) < 0
          /\ raw_ix(coords[1][2][q], grid_dims[2], 0) >= grid_dims[2]

----------------------------------------------------------------------------

Init == InitBin \/ InitSplat \/ InitProj
Next == NextBin \/ NextSplat \/ NextProj
Spec == Init /\ [][Next]_vars

====
